---- MODULE Spec2Model ----
(***************************************************************************)
(* XCPFlash (src/src/flash.py): one flash() call against a device reached  *)
(* over a CAN bus.  The driver's control state, the session values, the    *)
(* cursor of program() and the exchange loop of wait_for_response() are    *)
(* the state; every bus send / receive poll is one step.                   *)
(***************************************************************************)
EXTENDS Integers, Sequences, FiniteSets, TLC

(* ------------------------------ bounds -------------------------------- *)
\* longest firmware image
MaxLen == 7
\* transmissions of one command frame after which non-matching frames stop
MaxSends == 6
\* lowest value the cursor of program() is followed to (it can run backwards)
MaxBack == 6
\* first transmissions kept in the history `log`
MaxLog == 12
\* commands the device has still to answer when a retransmission is made
MaxQueue == 5

(* --------------------------- program constants ------------------------ *)
CONNECT == 255
DISCONNECT == 254
SET_MTA == 246
PROGRAM_START == 210
PROGRAM_CLEAR == 209
PROGRAM == 208
PROGRAM_RESET == 207
PROGRAM_NEXT == 202
SUCCESS == 255
ERROR == 254
\* keys of XCPErrors.error_messages
error_messages == {0, 16, 17, 18, 32, 33, 34, 35, 36, 37, 38, 39, 40, 41, 42,
                   48, 49, 50}
\* tries value at which wait_for_response gives up
TriesLimit == 5
\* bytes of a message (data=bytes(8)) and first payload position
FrameLen == 8
PayloadPos == 2
\* modulus of the progress throttle
ProgressEvery == 10000

(* ------------------------------ inputs -------------------------------- *)
\* identifiers given to __init__
TxId == 1
RxId == 2
OtherId == RxId + 1
ConnMode == 0
\* load address tried (0x12345678)
StartAddrs == {305419896}
\* error codes a device may put in byte1 of an ERROR frame
ErrCodes == {16, 1}
\* PROGRAM_START response: byte3 (max_dto_prg) and byte4 (max_bs)
DtoValues == {1, 3, 4, 9}
BsValues == {0, 1, 2, 3}
\* CONNECT response: byte1 (resources) and byte2 (comm mode basic)
ResourceValues == {16, 0, 239}
CommModeValues == {0, 2, 4, 249}
\* byte0 values of replies that are neither SUCCESS nor ERROR
OtherPids == {32}
\* limits of the device on the bus with a listener queue
QDtoValues == {4, 8}
QBsValues == {1, 2}

(* ------------------------------ helpers ------------------------------- *)
Min(a, b) == IF a <= b THEN a ELSE b
Max(a, b) == IF a >= b THEN a ELSE b

\* data[a:b] of Python for a sequence s (0-based, negative indices count
\* from the end, both ends clamped)
SliceIndex(i, n) == IF i < 0 THEN Max(i + n, 0) ELSE Min(i, n)
Slice(s, a, b) ==
    LET lo == SliceIndex(a, Len(s))
        hi == SliceIndex(b, Len(s))
    IN  IF lo < hi THEN SubSeq(s, lo + 1, hi) ELSE <<>>

Zeros == [i \in 1..FrameLen |-> 0]
\* msg.data[i] of a frame, i counted from 0 as in the source
Byte(f, i) == f.data[i + 1]

\* bytes 4..7 <- (v & (0xFF000000 >> 8*(i-4))) >> 8*(7-i)
BigEndian(d, v) ==
    [i \in 1..FrameLen |->
        IF i - 1 >= 4 THEN (v \div (256 ^ (7 - (i - 1)))) % 256 ELSE d[i]]

\* a bytearray element accepts 0..255 only
IsByte(v) == v \in 0..255

\* frames the reader can hand to wait_for_response
Frame(id, d) == [arbitration_id |-> id, data |-> d]
NoFrame == [arbitration_id |-> 0, data |-> <<>>]
With(d, i, v) == [d EXCEPT ![i + 1] = v]
\* command byte of a frame
Cmd(m) == m.data[1]

VARIABLES
    data,           \* firmware image (argument of __call__)
    start_addr,     \* load address (argument of __call__)
    pc,             \* statement of __call__/connect/clear/program being run
    xstate,         \* "idle", or "wait" inside wait_for_response
    msg,            \* last frame handed to bus.send, with its wait flag
    sends,          \* bus.send calls of the current (last) exchange
    tries,          \* local `tries` of wait_for_response
    received,       \* last value of `received`, NoFrame when None
    allNone,        \* every poll of the exchange so far returned None
    xout,           \* how the last exchange ended
    _max_data, _max_data_prg, _data_len,
    max_bs,         \* local of execute(PROGRAM_START), kept for reference
    bytes_send, send_length,
    progress,       \* iterations passed to print_progress_bar so far (last)
    log,            \* first transmissions, in order
    disconnects,    \* calls of disconnect()
    reported,       \* failures printed by __call__
    uncaught,       \* exception on its way out of __call__, "none" if none
    result,         \* "running", "returned" or "raised"
    pending,        \* commands on the bus the device has still to answer
    queue           \* frames the listener has put in the reader's FIFO

vars == <<data, start_addr, pc, xstate, msg, sends, tries, received, allNone,
          xout, _max_data, _max_data_prg, _data_len, max_bs, bytes_send,
          send_length, progress, log, disconnects, reported, uncaught, result,
          pending, queue>>

NoOutcome == [kind |-> "none", code |-> 0]
NoMsg == [data |-> Zeros, npay |-> 0, wait |-> FALSE]

Init ==
    /\ data \in {[i \in 1..n |-> i] : n \in 0..MaxLen}
    /\ start_addr \in StartAddrs
    /\ pc = "connect"
    /\ xstate = "idle"
    /\ msg = NoMsg
    /\ sends = 0
    /\ tries = 0
    /\ received = NoFrame
    /\ allNone = TRUE
    /\ xout = NoOutcome
    /\ _max_data = 8
    /\ _max_data_prg = 0
    /\ _data_len = 0
    /\ max_bs = 0
    /\ bytes_send = 0
    /\ send_length = 0
    /\ progress = <<>>
    /\ log = <<>>
    /\ disconnects = 0
    /\ reported = <<>>
    /\ uncaught = "none"
    /\ result = "running"
    /\ pending = <<>>
    /\ queue = <<>>

inputs == <<data, start_addr>>
session == <<_max_data, _max_data_prg, _data_len, max_bs>>
cursor == <<bytes_send, send_length, progress>>
flow == <<pc, xstate, reported, uncaught, result>>
exch == <<msg, sends, tries, received, allNone, xout, log>>
link == <<pending, queue>>

(* ------------------------- execute (197-252) -------------------------- *)
\* variant: byte 1 of a PROGRAM / PROGRAM_NEXT frame counts the payload bytes
\* of the frame
execute_payload_len(command, kw) ==
    LET base == With(Zeros, 0, command)
        built(d, n, w) == [exc |-> "none", data |-> d, npay |-> n, wait |-> w]
        broken(e) == [exc |-> e, data |-> base, npay |-> 0, wait |-> FALSE]
    IN  CASE command = CONNECT -> built(With(base, 1, ConnMode), 0, TRUE)
          [] command = SET_MTA ->
                built(BigEndian(With(base, 3, 0), kw.addr), 0, TRUE)
          [] command = PROGRAM_CLEAR -> built(BigEndian(base, kw.range), 0, TRUE)
          [] command \in {PROGRAM, PROGRAM_NEXT} ->
                IF ~IsByte(kw.size) THEN broken("ValueError")
                ELSE IF Len(kw.data) > FrameLen - PayloadPos
                     THEN broken("IndexError")
                ELSE built([i \in 1..FrameLen |->
                              IF i = 2 THEN Len(kw.data)
                              ELSE IF i > PayloadPos /\ i - PayloadPos <= Len(kw.data)
                                   THEN kw.data[i - PayloadPos]
                              ELSE base[i]],
                           Len(kw.data), kw.size <= _max_data_prg)
          [] OTHER -> built(base, 0, TRUE)

\* The frame execute() builds for a command, whether it waits for a reply,
\* and the exception a bytearray store raises while building it.
execute(command, kw) ==
    LET base == With(Zeros, 0, command)
        built(d, n, w) == [exc |-> "none", data |-> d, npay |-> n, wait |-> w]
        broken(e) == [exc |-> e, data |-> base, npay |-> 0, wait |-> FALSE]
    IN  CASE command = CONNECT -> built(With(base, 1, ConnMode), 0, TRUE)
          [] command = SET_MTA ->
                built(BigEndian(With(base, 3, 0), kw.addr), 0, TRUE)
          [] command = PROGRAM_CLEAR -> built(BigEndian(base, kw.range), 0, TRUE)
          [] command \in {PROGRAM, PROGRAM_NEXT} ->
                IF ~IsByte(kw.size) THEN broken("ValueError")
                ELSE IF Len(kw.data) > FrameLen - PayloadPos
                     THEN broken("IndexError")
                ELSE built([i \in 1..FrameLen |->
                              IF i = 2 THEN kw.size
                              ELSE IF i > PayloadPos /\ i - PayloadPos <= Len(kw.data)
                                   THEN kw.data[i - PayloadPos]
                              ELSE base[i]],
                           Len(kw.data), kw.size <= _max_data_prg)
          [] OTHER -> built(base, 0, TRUE)

NoArgs == [addr |-> 0, range |-> 0, size |-> 0, data |-> <<>>]

(* --------------------- wait_for_response (166-195) -------------------- *)
Step(a, k, c, t, r) ==
    [act |-> a, kind |-> k, code |-> c, tries |-> t, resend |-> r]

\* variant: gives up one pass early (tries == 4)
wait_for_response_early(tr, rcv, hasMsg) ==
    IF tr >= TriesLimit - 1 THEN Step("raise", "Timeout", 0, tr, FALSE)
    ELSE IF rcv = NoFrame THEN Step("continue", "none", 0, tr + 1, TRUE)
    ELSE IF rcv.arbitration_id = RxId /\ Byte(rcv, 0) = SUCCESS
         THEN Step("return", "success", 0, tr, FALSE)
    ELSE IF rcv.arbitration_id = RxId /\ Byte(rcv, 0) = ERROR
         THEN Step("raise", "DeviceError", Byte(rcv, 1), tr, FALSE)
    ELSE Step("continue", "none", 0, tr, TRUE)

\* variant: an ERROR response is answered by a resend like any other frame
wait_for_response_retry_error(tr, rcv, hasMsg) ==
    IF tr = TriesLimit THEN Step("raise", "Timeout", 0, tr, FALSE)
    ELSE IF rcv = NoFrame THEN Step("continue", "none", 0, tr + 1, TRUE)
    ELSE IF rcv.arbitration_id = RxId /\ Byte(rcv, 0) = SUCCESS
         THEN Step("return", "success", 0, tr, FALSE)
    ELSE Step("continue", "none", 0, tr, TRUE)

\* variant: every reply on the receive identifier that is no ERROR returns
wait_for_response_any_reply(tr, rcv, hasMsg) ==
    IF tr = TriesLimit THEN Step("raise", "Timeout", 0, tr, FALSE)
    ELSE IF rcv = NoFrame THEN Step("continue", "none", 0, tr + 1, TRUE)
    ELSE IF rcv.arbitration_id = RxId /\ Byte(rcv, 0) = ERROR
         THEN Step("raise", "DeviceError", Byte(rcv, 1), tr, FALSE)
    ELSE IF rcv.arbitration_id = RxId
         THEN Step("return", "success", 0, tr, FALSE)
    ELSE Step("continue", "none", 0, tr, TRUE)

\* variant: the arbitration identifier of a SUCCESS frame is not compared
wait_for_response_no_id(tr, rcv, hasMsg) ==
    IF tr = TriesLimit THEN Step("raise", "Timeout", 0, tr, FALSE)
    ELSE IF rcv = NoFrame THEN Step("continue", "none", 0, tr + 1, TRUE)
    ELSE IF Byte(rcv, 0) = SUCCESS
         THEN Step("return", "success", 0, tr, FALSE)
    ELSE IF rcv.arbitration_id = RxId /\ Byte(rcv, 0) = ERROR
         THEN Step("raise", "DeviceError", Byte(rcv, 1), tr, FALSE)
    ELSE Step("continue", "none", 0, tr, TRUE)

\* One pass of the loop: the check of `tries`, then what is done with the
\* value `rcv` the reader returned (NoFrame for None).
wait_for_response(tr, rcv, hasMsg) ==
    LET go(a, k, c, t, r) == Step(a, k, c, t, r)
    IN  IF tr = TriesLimit THEN go("raise", "Timeout", 0, tr, FALSE)
        ELSE IF rcv = NoFrame /\ hasMsg THEN go("continue", "none", 0, tr + 1, TRUE)
        ELSE IF rcv = NoFrame THEN go("continue", "none", 0, tr, FALSE)
        ELSE IF rcv.arbitration_id = RxId /\ Byte(rcv, 0) = SUCCESS
             THEN go("return", "success", 0, tr, FALSE)
        ELSE IF rcv.arbitration_id = RxId /\ Byte(rcv, 0) = ERROR
             THEN go("raise", "DeviceError", Byte(rcv, 1), tr, FALSE)
        ELSE IF hasMsg THEN go("continue", "none", 0, tr, TRUE)
        ELSE go("continue", "none", 0, tr, FALSE)

(* ------------------- except clauses of __call__ (336-352) ------------- *)
\* What a handler of __call__ does with an exception: the line it prints,
\* and the exception that leaves the handler ("none" when it is absorbed).
except_clauses(kind, code) ==
    CASE kind = "Timeout" -> [report |-> <<"Timeout">>, uncaught |-> "none"]
      [] kind = "DeviceError" ->
            IF code \in error_messages
            THEN [report |-> <<"DeviceError">>, uncaught |-> "none"]
            ELSE [report |-> <<>>, uncaught |-> "KeyError"]
      [] kind = "ConnectionError" ->
            [report |-> <<"ConnectionError">>, uncaught |-> "none"]
      [] OTHER -> [report |-> <<>>, uncaught |-> kind]

\* variant: an exception in the try block ends the call without finally
Fail_skip_finally(kind, code) ==
    LET h == except_clauses(kind, code)
    IN  /\ xstate' = "idle"
        /\ reported' = reported \o h.report
        /\ pc' = "done"
        /\ uncaught' = IF h.uncaught # "none" THEN h.uncaught ELSE uncaught
        /\ result' = IF uncaught' = "none" THEN "returned" ELSE "raised"

\* variant: a Timeout inside the try block is answered by running the
\* statement again
Fail_retry_stage(kind, code) ==
    LET h == except_clauses(kind, code)
    IN  /\ xstate' = "idle"
        /\ IF pc # "disconnect" /\ kind = "Timeout"
           THEN UNCHANGED <<pc, reported, uncaught, result>>
           ELSE /\ reported' = reported \o h.report
                /\ IF pc # "disconnect"
                   THEN /\ pc' = "disconnect"
                        /\ uncaught' = h.uncaught
                        /\ result' = result
                   ELSE /\ pc' = "done"
                        /\ uncaught' = IF h.uncaught # "none" THEN h.uncaught
                                        ELSE uncaught
                        /\ result' = IF uncaught' = "none" THEN "returned"
                                      ELSE "raised"

\* variant: a failure inside clear() is swallowed and program() is entered
Fail_enter_program(kind, code) ==
    LET h == except_clauses(kind, code)
    IN  /\ xstate' = "idle"
        /\ reported' = reported \o h.report
        /\ IF pc \in {"program_start", "set_mta", "program_clear"}
           THEN /\ pc' = "program"
                /\ uncaught' = uncaught
                /\ result' = result
           ELSE IF pc # "disconnect"
           THEN /\ pc' = "disconnect"
                /\ uncaught' = h.uncaught
                /\ result' = result
           ELSE /\ pc' = "done"
                /\ uncaught' = IF h.uncaught # "none" THEN h.uncaught ELSE uncaught
                /\ result' = IF uncaught' = "none" THEN "returned" ELSE "raised"

\* An exception leaves the statement at pc: inside the try block control
\* goes to the handlers and then to finally; inside finally it ends the call.
Fail(kind, code) ==
    LET h == except_clauses(kind, code)
    IN  /\ xstate' = "idle"
        /\ reported' = reported \o h.report
        /\ IF pc # "disconnect"
           THEN /\ pc' = "disconnect"
                /\ uncaught' = h.uncaught
                /\ result' = result
           ELSE /\ pc' = "done"
                /\ uncaught' = IF h.uncaught # "none" THEN h.uncaught ELSE uncaught
                /\ result' = IF uncaught' = "none" THEN "returned" ELSE "raised"

Goto(p) ==
    /\ pc' = p
    /\ xstate' = "idle"
    /\ UNCHANGED <<reported, uncaught, result>>

(* ------------------------ send_can_msg (144-164) ---------------------- *)
Record(h, m) == IF Len(h) < MaxLog THEN Append(h, m) ELSE h

\* bus.send(msg) of a newly built frame, and entry into wait_for_response
send_can_msg(e) ==
    /\ msg' = [data |-> e.data, npay |-> e.npay, wait |-> e.wait]
    /\ log' = Record(log, msg')
    /\ sends' = 1
    /\ received' = NoFrame
    /\ allNone' = TRUE
    /\ tries' = IF e.wait THEN 1 ELSE 0
    /\ xout' = IF e.wait THEN [kind |-> "pending", code |-> 0] ELSE NoOutcome

(* ----------------------- the steps of __call__ ------------------------ *)
\* connect(): execute(CONNECT)                                   (302-309)
Connect ==
    /\ pc = "connect" /\ xstate = "idle"
    /\ send_can_msg(execute(CONNECT, NoArgs))
    /\ xstate' = "wait"
    /\ UNCHANGED <<pc, reported, uncaught, result, disconnects, inputs,
                   session, cursor>>

\* clear(): execute(PROGRAM_START)                               (297-298)
ProgramStart ==
    /\ pc = "program_start" /\ xstate = "idle"
    /\ send_can_msg(execute(PROGRAM_START, NoArgs))
    /\ xstate' = "wait"
    /\ UNCHANGED <<pc, reported, uncaught, result, disconnects, inputs,
                   session, cursor>>

\* clear(): execute(SET_MTA, addr=start_addr)                    (299)
SetMta ==
    /\ pc = "set_mta" /\ xstate = "idle"
    /\ send_can_msg(execute(SET_MTA, [NoArgs EXCEPT !.addr = start_addr]))
    /\ xstate' = "wait"
    /\ UNCHANGED <<pc, reported, uncaught, result, disconnects, inputs,
                   session, cursor>>

\* clear(): execute(PROGRAM_CLEAR, range=length)                 (300)
ProgramClear ==
    /\ pc = "program_clear" /\ xstate = "idle"
    /\ send_can_msg(execute(PROGRAM_CLEAR, [NoArgs EXCEPT !.range = Len(data)]))
    /\ xstate' = "wait"
    /\ UNCHANGED <<pc, reported, uncaught, result, disconnects, inputs,
                   session, cursor>>

\* print_progress_bar (135-142): 100 * (iteration / float(total)) divides
\* by zero for an empty image
print_progress_bar(iteration, total) ==
    IF total = 0 THEN [exc |-> "ZeroDivisionError", shown |-> progress]
    ELSE [exc |-> "none", shown |-> <<iteration>>]

\* lines 275-276 after the PROGRAM of a unit: the unit's remainder and the
\* cursor
AfterProgram(sl, bs) ==
    [send_length |-> sl - _max_data_prg,
     bytes_send |-> bs + Min(sl - _max_data_prg, _max_data_prg)]

\* variant: the cursor moves by a whole frame after every PROGRAM_NEXT
AfterProgramNext_whole_frame(sl, bs) ==
    [send_length |-> sl - _max_data_prg,
     bytes_send |-> bs + _max_data_prg]

\* lines 280-281 after a PROGRAM_NEXT
AfterProgramNext(sl, bs) ==
    [send_length |-> sl - _max_data_prg,
     bytes_send |-> bs + Min(sl, _max_data_prg)]

\* where program() continues once a frame of a unit is out (264, 277)
Continue(after) ==
    /\ send_length' = after.send_length
    /\ bytes_send' = after.bytes_send
    /\ pc' = IF after.send_length > 0 THEN "program_next" ELSE "program"
    /\ xstate' = "idle"
    /\ UNCHANGED <<reported, uncaught, result>>

\* program(): one pass of the outer loop up to the PROGRAM frame (264-276)
Program ==
    /\ pc = "program" /\ xstate = "idle"
    /\ bytes_send < Len(data)
    /\ bytes_send >= -MaxBack
    /\ LET sl == IF _data_len > Len(data) - bytes_send
                 THEN Len(data) - bytes_send ELSE _data_len
           bar == IF bytes_send % ProgressEvery <= _data_len
                  THEN print_progress_bar(bytes_send, Len(data))
                  ELSE [exc |-> "none", shown |-> progress]
           e == execute(PROGRAM,
                        [NoArgs EXCEPT !.size = sl,
                           !.data = Slice(data, bytes_send,
                                          bytes_send + _max_data_prg)])
       IN  /\ progress' = bar.shown
           /\ IF e.exc # "none"
              THEN /\ Fail(e.exc, 0)
                   /\ send_length' = sl
                   /\ UNCHANGED <<bytes_send, exch>>
              ELSE /\ send_can_msg(e)
                   /\ IF e.wait
                      THEN /\ xstate' = "wait"
                           /\ send_length' = sl
                           /\ UNCHANGED <<pc, reported, uncaught, result,
                                          bytes_send>>
                      ELSE Continue(AfterProgram(sl, bytes_send))
    /\ UNCHANGED <<disconnects, inputs, session>>

\* program(): one pass of the inner loop up to the PROGRAM_NEXT frame
\* (277-281)
ProgramNext ==
    /\ pc = "program_next" /\ xstate = "idle"
    /\ bytes_send >= -MaxBack
    /\ LET e == execute(PROGRAM_NEXT,
                        [NoArgs EXCEPT !.size = send_length,
                           !.data = Slice(data, bytes_send,
                                          bytes_send + _max_data_prg)])
       IN  IF e.exc # "none"
           THEN /\ Fail(e.exc, 0)
                /\ UNCHANGED <<bytes_send, send_length, exch>>
           ELSE /\ send_can_msg(e)
                /\ IF e.wait
                   THEN /\ xstate' = "wait"
                        /\ UNCHANGED <<pc, reported, uncaught, result,
                                       bytes_send, send_length>>
                   ELSE Continue(AfterProgramNext(send_length, bytes_send))
    /\ UNCHANGED <<progress, disconnects, inputs, session>>

\* program(): the loop is over; final progress and PROGRAM_RESET (282-285)
ProgramReset ==
    /\ pc = "program" /\ xstate = "idle"
    /\ bytes_send >= Len(data)
    /\ LET bar == print_progress_bar(bytes_send, Len(data))
       IN  /\ progress' = bar.shown
           /\ IF bar.exc # "none"
              THEN /\ Fail(bar.exc, 0)
                   /\ UNCHANGED exch
              ELSE /\ send_can_msg(execute(PROGRAM_RESET, NoArgs))
                   /\ pc' = "program_reset"
                   /\ xstate' = "wait"
                   /\ UNCHANGED <<reported, uncaught, result>>
    /\ UNCHANGED <<bytes_send, send_length, disconnects, inputs, session>>

\* finally: disconnect(): execute(DISCONNECT)                    (344-346)
Disconnect ==
    /\ pc = "disconnect" /\ xstate = "idle"
    /\ disconnects' = disconnects + 1
    /\ send_can_msg(execute(DISCONNECT, NoArgs))
    /\ xstate' = "wait"
    /\ UNCHANGED <<pc, reported, uncaught, result, inputs, session, cursor>>

(* --------------- what each caller does with the response -------------- *)
\* variant: only the flash programming bit of byte 1 is looked at
connect_checks_flag_only(response) ==
    IF (Byte(response, 1) \div 16) % 2 = 0 THEN "ConnectionError"
    ELSE "none"

\* connect() after execute(CONNECT) returned (310-314)
connect_checks(response) ==
    IF (Byte(response, 1) \div 16) % 2 = 0 THEN "ConnectionError"
    ELSE IF (Byte(response, 2) \div 2) % 4 # 0 THEN "ConnectionError"
    ELSE "none"

\* variant: only the low byte of the limit is kept
connect_limit_low(response) == Byte(response, 5)

\* execute(CONNECT) after send_can_msg returned (221-222)
connect_limit(response) == Byte(response, 4) * 256 + Byte(response, 5)

\* execute(PROGRAM_START) after send_can_msg returned (234-237)
program_limits(response) ==
    [max_bs |-> Byte(response, 4),
     _data_len |-> (Byte(response, 3) - 2) * Byte(response, 4),
     _max_data_prg |-> Byte(response, 3) - 2]

\* send_can_msg returned `response` to the statement at pc
Return(response) ==
    CASE pc = "connect" ->
            /\ _max_data' = connect_limit(response)
            /\ IF connect_checks(response) = "none"
               THEN Goto("program_start")
               ELSE Fail(connect_checks(response), 0)
            /\ UNCHANGED <<_max_data_prg, _data_len, max_bs, cursor>>
      [] pc = "program_start" ->
            /\ max_bs' = program_limits(response).max_bs
            /\ _data_len' = program_limits(response)._data_len
            /\ _max_data_prg' = program_limits(response)._max_data_prg
            /\ Goto("set_mta")
            /\ UNCHANGED <<_max_data, cursor>>
      [] pc = "set_mta" ->
            /\ Goto("program_clear")
            /\ UNCHANGED <<session, cursor>>
      [] pc = "program_clear" ->
            /\ Goto("program")
            /\ bytes_send' = 0
            /\ UNCHANGED <<session, send_length, progress>>
      [] pc = "program" ->
            /\ Continue(AfterProgram(send_length, bytes_send))
            /\ UNCHANGED <<session, progress>>
      [] pc = "program_next" ->
            /\ Continue(AfterProgramNext(send_length, bytes_send))
            /\ UNCHANGED <<session, progress>>
      [] pc = "program_reset" ->
            /\ Goto("disconnect")
            /\ UNCHANGED <<session, cursor>>
      [] pc = "disconnect" ->
            /\ pc' = "done"
            /\ xstate' = "idle"
            /\ result' = IF uncaught = "none" THEN "returned" ELSE "raised"
            /\ UNCHANGED <<reported, uncaught, session, cursor>>

\* one pass of the loop of wait_for_response with the reader's value rcv
Poll(rcv) ==
    /\ xstate = "wait"
    /\ LET r == wait_for_response(tries, rcv, TRUE)
       IN  /\ tries' = r.tries
           /\ sends' = IF r.resend THEN sends + 1 ELSE sends
           /\ received' = IF tries = TriesLimit THEN received ELSE rcv
           /\ allNone' = IF tries = TriesLimit THEN allNone
                         ELSE (allNone /\ rcv = NoFrame)
           /\ CASE r.act = "continue" ->
                     /\ xout' = xout
                     /\ UNCHANGED <<flow, session, cursor>>
                [] r.act = "return" ->
                     /\ xout' = [kind |-> "success", code |-> 0]
                     /\ Return(rcv)
                [] r.act = "raise" ->
                     /\ xout' = [kind |-> r.kind, code |-> r.code]
                     /\ Fail(r.kind, r.code)
                     /\ UNCHANGED <<session, cursor>>
    /\ UNCHANGED <<msg, log, disconnects, inputs>>

(* ------------------------- what the device sends ---------------------- *)
\* SUCCESS responses, the bytes the caller at pc reads ranging over the
\* input sets
SuccessFrames ==
    CASE pc = "connect" ->
            {Frame(RxId, <<SUCCESS, b1, b2, 0, 1, 2, 0, 0>>) :
                b1 \in ResourceValues, b2 \in CommModeValues}
      [] pc = "program_start" ->
            {Frame(RxId, <<SUCCESS, 0, 0, dto, bs, 0, 0, 0>>) :
                dto \in DtoValues, bs \in BsValues}
      [] OTHER -> {Frame(RxId, With(Zeros, 0, SUCCESS))}

ErrorFrames == {Frame(RxId, With(With(Zeros, 0, ERROR), 1, c)) : c \in ErrCodes}

\* frames of another identifier, and replies that are neither SUCCESS nor ERROR
OtherFrames ==
    {Frame(OtherId, With(Zeros, 0, SUCCESS))}
        \cup {Frame(RxId, With(Zeros, 0, p)) : p \in OtherPids}

\* tries reached the limit: ConnectionAbortedError("Timeout") (181-182)
Timeout ==
    /\ tries = TriesLimit
    /\ Poll(NoFrame)

\* get_message(timeout) returned None (183-187)
RecvNone ==
    /\ tries # TriesLimit
    /\ Poll(NoFrame)

\* get_message returned a SUCCESS response (190-191)
RecvSuccess ==
    /\ tries # TriesLimit
    /\ \E f \in SuccessFrames : Poll(f)

\* get_message returned an ERROR response (192-193)
RecvError ==
    /\ tries # TriesLimit
    /\ \E f \in ErrorFrames : Poll(f)

\* get_message returned any other frame (194-195)
RecvOther ==
    /\ tries # TriesLimit
    /\ sends < MaxSends
    /\ \E f \in OtherFrames : Poll(f)

Call ==
    \/ Connect \/ ProgramStart \/ SetMta \/ ProgramClear
    \/ Program \/ ProgramNext \/ ProgramReset \/ Disconnect

\* the reader returns whatever it likes; the bus is left out
Next ==
    \/ Connect /\ UNCHANGED link
    \/ ProgramStart /\ UNCHANGED link
    \/ SetMta /\ UNCHANGED link
    \/ ProgramClear /\ UNCHANGED link
    \/ Program /\ UNCHANGED link
    \/ ProgramNext /\ UNCHANGED link
    \/ ProgramReset /\ UNCHANGED link
    \/ Disconnect /\ UNCHANGED link
    \/ Timeout /\ UNCHANGED link
    \/ RecvNone /\ UNCHANGED link
    \/ RecvSuccess /\ UNCHANGED link
    \/ RecvError /\ UNCHANGED link
    \/ RecvOther /\ UNCHANGED link

Spec == Init /\ [][Next]_vars

\* a device that answers every awaited frame with SUCCESS at once
NextOk ==
    \/ Connect /\ UNCHANGED link
    \/ ProgramStart /\ UNCHANGED link
    \/ SetMta /\ UNCHANGED link
    \/ ProgramClear /\ UNCHANGED link
    \/ Program /\ UNCHANGED link
    \/ ProgramNext /\ UNCHANGED link
    \/ ProgramReset /\ UNCHANGED link
    \/ Disconnect /\ UNCHANGED link
    \/ RecvSuccess /\ UNCHANGED link

SpecOk == Init /\ [][NextOk]_vars /\ WF_vars(NextOk)

(* ---------------- a bus with a listener queue and a device ------------ *)
\* The frames of bus.send reach a device that answers each command it is
\* to answer (the frames sent without a wait are interior frames of a
\* block and get no answer); a listener appends the answers to the FIFO
\* that get_message reads.
driver == <<inputs, session, cursor, flow, exch, disconnects>>

\* the SUCCESS response of the device to command c, marked with c
Answers(c) ==
    CASE c = CONNECT ->
            {[arbitration_id |-> RxId, re |-> c,
              data |-> <<SUCCESS, 16, 0, 0, 1, 2, 0, 0>>]}
      [] c = PROGRAM_START ->
            {[arbitration_id |-> RxId, re |-> c,
              data |-> <<SUCCESS, 0, 0, dto, bs, 0, 0, 0>>] :
                dto \in QDtoValues, bs \in QBsValues}
      [] OTHER ->
            {[arbitration_id |-> RxId, re |-> c, data |-> With(Zeros, 0, SUCCESS)]}

\* bus.send of a newly built frame (160)
BusSend ==
    /\ Call
    /\ pending' = IF (pc = "disconnect" \/ pc' # "disconnect") /\ msg'.wait
                  THEN Append(pending, Cmd(msg'))
                  ELSE pending
    /\ queue' = queue

\* the device answers the oldest command it has not answered yet
DeviceAnswers ==
    /\ pending # <<>>
    /\ \E f \in Answers(Head(pending)) : queue' = Append(queue, f)
    /\ pending' = Tail(pending)
    /\ UNCHANGED driver

\* get_message(timeout) returns the oldest frame of the FIFO (183, 190-193)
ReaderGets ==
    /\ queue # <<>>
    /\ tries # TriesLimit
    /\ Poll(Head(queue))
    /\ queue' = Tail(queue)
    /\ pending' = pending

\* the FIFO stays empty for the timeout: None, bus.send again (184-187)
ReaderTimesOut ==
    /\ queue = <<>>
    /\ Len(pending) < MaxQueue
    /\ RecvNone
    /\ pending' = Append(pending, Cmd(msg))
    /\ queue' = queue

GivesUp ==
    /\ Timeout
    /\ UNCHANGED link

NextQ ==
    \/ BusSend \/ DeviceAnswers \/ ReaderGets \/ ReaderTimesOut \/ GivesUp

SpecQ == Init /\ [][NextQ]_vars

(* ============================ properties ============================== *)
IsReply(f, pid) ==
    /\ f # NoFrame
    /\ f.arbitration_id = RxId
    /\ Byte(f, 0) = pid

IsStrayReply(f) ==
    /\ f # NoFrame
    /\ f.arbitration_id = RxId
    /\ Byte(f, 0) \notin {SUCCESS, ERROR}

\* C1: an awaited exchange whose every poll returned no frame has sent the
\* command frame once per try, never more than 5 times; it cannot end
\* otherwise than by Timeout, it does so when (and only when) 5 frames are
\* out, and at 5 frames no further poll is made.
C1_SilentExchangeSendsFive ==
    (xout.kind # "none" /\ allNone) =>
        /\ sends = tries
        /\ sends <= 5
        /\ xout.kind \in {"pending", "Timeout"}
        /\ xout.kind = "Timeout" => sends = 5
        /\ (xout.kind = "pending" /\ sends = 5) => (ENABLED Timeout /\ ~ENABLED RecvNone)

C1_Witness ==
    /\ xout.kind = "Timeout"
    /\ allNone
    /\ sends = 5

\* C2: in every awaited exchange the command frame is transmitted at most
\* 5 times, whatever frames the reader returns.
C2_AtMostFiveSends ==
    xout.kind # "none" => sends <= 5

\* C3: a step of an awaited exchange that reads an ERROR frame on the
\* receive identifier ends the exchange in that step with DeviceError
\* carrying byte1 of the frame, and transmits nothing.
C3_ErrorFailsAtOnce ==
    [][(xstate = "wait" /\ tries # TriesLimit /\ IsReply(received', ERROR)) =>
            /\ xstate' = "idle"
            /\ xout' = [kind |-> "DeviceError", code |-> Byte(received', 1)]
            /\ sends' = sends
            /\ msg' = msg
            /\ log' = log
            /\ pc' \in {"disconnect", "done"}]_vars

C3_Witness ==
    /\ IsReply(received, ERROR)
    /\ xout.kind = "DeviceError"
    /\ xout.code = 1
    /\ sends > 1

C5_SoleSuccessExit ==
    /\ [](xstate = "wait" => ~IsReply(received, SUCCESS))
    /\ [][(xstate = "wait" /\ xstate' = "idle") =>
            /\ xout'.kind \in {"success", "Timeout", "DeviceError"}
            /\ (xout'.kind = "success") =
                   (tries # TriesLimit /\ IsReply(received', SUCCESS))
            /\ xout'.kind = "success" => sends' = sends /\ log' = log
            /\ xout'.kind # "success" => pc' \in {"disconnect", "done"}
            /\ (xout'.kind = "success" /\ pc = "program_start") =>
                   _max_data_prg' = Byte(received', 3) - 2]_vars

C5_Witness ==
    /\ xout.kind = "success"
    /\ IsReply(received, SUCCESS)
    /\ pc = "set_mta"
    /\ sends = 2

\* C6: disconnect() has been called at most once at any time, exactly once
\* from the moment the try block of __call__ is left (normally or by any
\* exception), hence exactly once in every call that has ended; a failure
\* of any stage leads to it.
C6_DisconnectExactlyOnce ==
    /\ disconnects \in {0, 1}
    /\ (disconnects = 1) = (pc = "done" \/ (pc = "disconnect" /\ xstate = "wait"))
    /\ (result # "running") = (pc = "done")
    /\ (reported # <<>> \/ uncaught # "none") => pc \in {"disconnect", "done"}
    /\ (pc = "disconnect" /\ xstate = "idle") => ENABLED Disconnect

C6_Witness ==
    /\ pc = "done"
    /\ disconnects = 1
    /\ reported = <<"ConnectionError", "Timeout">>

\* C7: no exception propagates out of __call__.
C7_AlwaysReturns ==
    result # "raised"

IsProgramFrame(m) == m.data[1] \in {PROGRAM, PROGRAM_NEXT}
Payload(m) == SubSeq(m.data, PayloadPos + 1, PayloadPos + m.npay)
RECURSIVE Concat(_)
Concat(h) == IF h = <<>> THEN <<>> ELSE Payload(Head(h)) \o Concat(Tail(h))
\* payload bytes of the PROGRAM / PROGRAM_NEXT frames sent so far, in order
Transferred == Concat(SelectSeq(log, IsProgramFrame))
IsPrefix(a, b) == Len(a) <= Len(b) /\ a = SubSeq(b, 1, Len(a))
ResetSent == \E i \in 1..Len(log) : log[i].data[1] = PROGRAM_RESET
Negotiated == _max_data_prg >= 1 /\ max_bs >= 1 /\ Len(data) >= 1

\* C8: with limits C >= 1, BS >= 1 and a non-empty image, when all exchanges
\* succeed, the payload bytes of the PROGRAM / PROGRAM_NEXT frames sent so
\* far are, in order, the first bytes of the image (none repeated, skipped
\* or re-sent), and all of it once PROGRAM_RESET is sent.
C8_TransferEqualsImage ==
    (Negotiated /\ Len(log) < MaxLog) =>
        /\ IsPrefix(Transferred, data)
        /\ ResetSent => Transferred = data

\* C9: with limits C >= 1, BS >= 1 and a non-empty image, when all
\* exchanges succeed, program() comes to an end.
C9_ProgramTerminates ==
    (pc = "program" /\ Negotiated) ~> (pc \notin {"program", "program_next"})

\* C10: every PROGRAM / PROGRAM_NEXT frame sent that carries payload bytes
\* carries at most _max_data_prg of them.
C10_PayloadWithinCapacity ==
    (IsProgramFrame(msg) /\ msg.npay > 0) => msg.npay <= _max_data_prg

InProgram == pc \in {"program", "program_next"}

\* C11 as stated: byte 1 of every PROGRAM / PROGRAM_NEXT frame sent equals
\* the number of payload bytes the frame carries, and is at most 6.
C11_SizeByteIsPayloadCount ==
    IsProgramFrame(msg) =>
        /\ Byte(msg, 1) = msg.npay
        /\ Byte(msg, 1) <= FrameLen - PayloadPos

\* C11 amended: byte 1 of a PROGRAM / PROGRAM_NEXT frame is the number of
\* bytes of its unit not yet accounted for when the frame is built
\* (send_length: the whole unit for PROGRAM, the remainder for
\* PROGRAM_NEXT), which is send_length while the reply is awaited and
\* send_length + _max_data_prg once lines 275 / 280 have run; the frame
\* carries at most 6 payload bytes, whatever byte 1 says.
C11_SizeByteIsUnitRemainder ==
    (IsProgramFrame(msg) /\ InProgram) =>
        /\ Byte(msg, 1) = IF xstate = "wait" THEN send_length
                          ELSE send_length + _max_data_prg
        /\ msg.npay <= FrameLen - PayloadPos

C11_Witness ==
    /\ IsProgramFrame(msg)
    /\ InProgram
    /\ Byte(msg, 1) = 6
    /\ msg.npay = 2

ProgramFrameSent == \E i \in 1..Len(log) : IsProgramFrame(log[i])
Exits(p) == pc = p /\ pc' # p
Enters(p) == pc # p /\ pc' = p
Succeeds == tries # TriesLimit /\ IsReply(received', SUCCESS) /\ xout'.kind = "success"

\* C12: a PROGRAM / PROGRAM_NEXT frame is sent only after CONNECT,
\* PROGRAM_START, SET_MTA and PROGRAM_CLEAR, in that order; until the
\* PROGRAM_START exchange is left none is sent and the limits are unset;
\* that exchange is left either by reading a SUCCESS response, whose bytes
\* 3 and 4 are stored as the limits, or by a failure that leads to
\* disconnect; each statement of clear() and program() is reached only by
\* the success of the one before it, and after a failure program() is
\* never entered.
C12_ProgramAfterLimits ==
    /\ [](ProgramFrameSent =>
            /\ Len(log) >= 5
            /\ <<Cmd(log[1]), Cmd(log[2]), Cmd(log[3]), Cmd(log[4])>> =
                   <<CONNECT, PROGRAM_START, SET_MTA, PROGRAM_CLEAR>>)
    /\ [](pc \in {"connect", "program_start"} =>
            /\ ~ProgramFrameSent
            /\ _max_data_prg = 0 /\ _data_len = 0)
    /\ [][Exits("program_start") =>
            IF Succeeds
            THEN /\ pc' = "set_mta"
                 /\ _max_data_prg' = Byte(received', 3) - 2
                 /\ _data_len' = (Byte(received', 3) - 2) * Byte(received', 4)
            ELSE /\ pc' = "disconnect"
                 /\ UNCHANGED <<_max_data_prg, _data_len>>]_vars
    /\ [][Enters("set_mta") => (pc = "program_start" /\ Succeeds)]_vars
    /\ [][Enters("program_clear") => (pc = "set_mta" /\ Succeeds)]_vars
    /\ [][Enters("program") =>
            (pc \in {"program_clear", "program_next"} /\ Succeeds)
              \/ (pc = "program_next" /\ ~msg'.wait)]_vars
    /\ [][Enters("program_next") => pc = "program"]_vars
    /\ [][(pc \in {"disconnect", "done"}) => (pc' \in {"disconnect", "done"})]_vars

C12_Witness ==
    /\ IsProgramFrame(msg)
    /\ Len(log) = 5
    /\ _max_data_prg = 2
    /\ _data_len = 6
    /\ xstate = "idle"

\* bit 0x10 of byte 1 set, bits 0x06 of byte 2 clear
Capable(f) ==
    /\ (Byte(f, 1) \div 16) % 2 = 1
    /\ (Byte(f, 2) \div 2) % 2 = 0
    /\ (Byte(f, 2) \div 4) % 2 = 0

\* C13: the CONNECT exchange is left for clear() exactly by the step that
\* reads a SUCCESS response with bit 0x10 of byte 1 set and the bits 0x06 of
\* byte 2 clear, and nothing is reported then; a SUCCESS response that
\* lacks the flag or has a granularity bit set is reported as a
\* ConnectionError and control goes to disconnect; after such a report no
\* command other than CONNECT and DISCONNECT has been sent.
C13_ConnectChecksCapabilities ==
    /\ [][Exits("connect") =>
            IF Succeeds /\ Capable(received')
            THEN /\ pc' = "program_start"
                 /\ reported' = reported
                 /\ uncaught' = "none"
            ELSE /\ pc' = "disconnect"
                 /\ Succeeds => /\ reported' = <<"ConnectionError">>
                                /\ uncaught' = "none"]_vars
    /\ [][Enters("program_start") => (pc = "connect" /\ Succeeds)]_vars
    /\ [](pc = "connect" => reported = <<>>)
    /\ []((reported # <<>> /\ Head(reported) = "ConnectionError") =>
            \A i \in 1..Len(log) : Cmd(log[i]) \in {CONNECT, DISCONNECT})

C13_Witness ==
    /\ pc = "disconnect"
    /\ reported = <<"ConnectionError">>
    /\ IsReply(received, SUCCESS)
    /\ Byte(received, 1) = 16
    /\ Byte(received, 2) = 4

Failed == reported # <<>> \/ uncaught # "none"
Transmits == sends' # sends \/ msg' # msg \/ log' # log

\* C14: a step in which an exchange of connect(), clear() or program() ends
\* by Timeout or DeviceError transmits nothing and passes control to
\* disconnect; whenever a failure has been reported or is on its way out,
\* control is at disconnect or past it; from there control never returns to
\* an earlier statement, and every frame transmitted is a DISCONNECT frame.
C14_OnlyDisconnectAfterFailure ==
    /\ [][(pc # "disconnect" /\ xstate = "wait"
             /\ xout'.kind \in {"Timeout", "DeviceError"}) =>
            /\ pc' = "disconnect"
            /\ xstate' = "idle"
            /\ ~Transmits]_vars
    /\ [](Failed => pc \in {"disconnect", "done"})
    /\ [][(pc \in {"disconnect", "done"}) =>
            /\ pc' \in {"disconnect", "done"}
            /\ Transmits => Cmd(msg') = DISCONNECT]_vars
    /\ [](pc = "done" => ~ENABLED Next)

C14_Witness ==
    /\ pc = "disconnect"
    /\ xstate = "wait"
    /\ sends = 2
    /\ reported = <<"DeviceError">>
    /\ ProgramFrameSent

\* C15: _max_data changes only in the step that reads the SUCCESS response
\* of the CONNECT exchange, to bytes 4-5 of that response; _max_data_prg and
\* _data_len change only in the step that reads the SUCCESS response of the
\* PROGRAM_START exchange, to the values of its bytes 3 and 4; each of these
\* steps leaves its statement, which is never entered again, so each value
\* is written at most once; every other step (sends, resends, failures,
\* the other commands) leaves all three as they are.
C15_SessionValuesWrittenOnce ==
    /\ [][(pc = "connect" /\ xstate = "wait" /\ Succeeds) =>
            /\ _max_data' = Byte(received', 4) * 256 + Byte(received', 5)
            /\ pc' # "connect"]_vars
    /\ [][(pc = "program_start" /\ xstate = "wait" /\ Succeeds) =>
            /\ _max_data_prg' = Byte(received', 3) - 2
            /\ _data_len' = (Byte(received', 3) - 2) * Byte(received', 4)
            /\ pc' # "program_start"]_vars
    /\ [][~(pc = "connect" /\ xstate = "wait" /\ Succeeds) =>
            _max_data' = _max_data]_vars
    /\ [][~(pc = "program_start" /\ xstate = "wait" /\ Succeeds) =>
            UNCHANGED <<_max_data_prg, _data_len>>]_vars
    /\ [][~Enters("connect")]_vars
    /\ [][Enters("program_start") => pc = "connect"]_vars

C15_Witness ==
    /\ pc = "done"
    /\ reported = <<"Timeout">>
    /\ ProgramFrameSent
    /\ _max_data = 258
    /\ _max_data_prg = 2
    /\ _data_len = 6

\* frames at the end of history h that were sent without waiting for a reply
RECURSIVE Unawaited(_)
Unawaited(h) ==
    IF h = <<>> \/ h[Len(h)].wait THEN 0
    ELSE 1 + Unawaited(SubSeq(h, 1, Len(h) - 1))
\* first transmissions since the last awaited one, the last frame included
Burst == IF log = <<>> THEN 0 ELSE 1 + Unawaited(SubSeq(log, 1, Len(log) - 1))

\* C16: a PROGRAM / PROGRAM_NEXT frame is sent with a wait for the reply
\* exactly when the size it declares (what is left of its unit) is at most
\* _max_data_prg, and the PROGRAM / PROGRAM_NEXT frames sent since the last
\* awaited frame, this one included, number at most max_bs (at most one
\* where max_bs is 0).
C16_LookAheadWithinBS ==
    (IsProgramFrame(msg) /\ InProgram /\ Len(log) < MaxLog) =>
        /\ msg.wait = (Byte(msg, 1) <= _max_data_prg)
        /\ Burst <= Max(max_bs, 1)

\* C17: on a bus whose device answers every command awaited and whose
\* listener queue is a FIFO, the frame an exchange returns as its SUCCESS
\* response is the device's answer to the command of that exchange.
C17_ReplyAnswersItsCommand ==
    (xout.kind = "success" /\ received # NoFrame) => received.re = Cmd(msg)

\* C18: while an exchange is awaited, the transmission made last is followed
\* by a poll of the reader: a SUCCESS response that arrives now is read and
\* ends the exchange with success, and the exchange cannot end by Timeout
\* before that poll.
C18_EverySendIsPolled ==
    (xstate = "wait" /\ xout.kind = "pending") =>
        /\ ENABLED RecvSuccess
        /\ ~ENABLED Timeout

AfterReset == pc \in {"program_reset", "disconnect", "done"}

\* C19: when PROGRAM_RESET is the frame sent last, the cursor bytes_send
\* equals the length of the image, the progress report made last was for
\* that length, and control is past program(); PROGRAM_RESET is sent only
\* by the step that leaves the loop of program(); from then on control does
\* not return to the loop and no PROGRAM / PROGRAM_NEXT frame is sent.
C19_ResetAtEndOfImage ==
    /\ [](Cmd(msg) = PROGRAM_RESET =>
            /\ bytes_send = Len(data)
            /\ progress = <<Len(data)>>
            /\ AfterReset)
    /\ [][(Transmits /\ Cmd(msg') = PROGRAM_RESET /\ Cmd(msg) # PROGRAM_RESET) =>
            (pc = "program" /\ pc' = "program_reset")]_vars
    /\ [][AfterReset =>
            /\ pc' \in {"program_reset", "disconnect", "done"}
            /\ ~(Transmits /\ IsProgramFrame(msg'))]_vars

C19_Witness ==
    /\ Cmd(msg) = PROGRAM_RESET
    /\ pc = "program_reset"
    /\ Len(data) = 5
    /\ _max_data_prg = 2
    /\ max_bs = 3

\* the commands of a complete session in history h: the four of connect()
\* and clear() with their arguments, PROGRAM / PROGRAM_NEXT frames (one at
\* least), PROGRAM_RESET, DISCONNECT
IsFullSession(h) ==
    /\ Len(h) >= 7
    /\ h[1].data = execute(CONNECT, NoArgs).data
    /\ h[2].data = execute(PROGRAM_START, NoArgs).data
    /\ h[3].data = BigEndian(With(Zeros, 0, SET_MTA), start_addr)
    /\ h[4].data = BigEndian(With(Zeros, 0, PROGRAM_CLEAR), Len(data))
    /\ Cmd(h[5]) = PROGRAM
    /\ \A i \in 5..(Len(h) - 2) : IsProgramFrame(h[i])
    /\ Cmd(h[Len(h) - 1]) = PROGRAM_RESET
    /\ Cmd(h[Len(h)]) = DISCONNECT

\* C20: with a device that answers every exchange with SUCCESS, accepts
\* the connection and grants a capacity of 1 to 6 bytes and one transfer or
\* more per block, a call that has ended has sent, in this order and apart
\* from retransmissions, CONNECT, PROGRAM_START, SET_MTA(start_addr),
\* PROGRAM_CLEAR(len(data)), one or more PROGRAM / PROGRAM_NEXT frames,
\* PROGRAM_RESET and DISCONNECT, each of the others once.
C20_CommandOrder ==
    (/\ pc = "done"
     /\ reported = <<>>
     /\ _max_data_prg \in 1..(FrameLen - PayloadPos)
     /\ max_bs >= 1
     /\ Len(log) < MaxLog) => IsFullSession(log)
====
